---- MODULE Spec2Model ----
(***************************************************************************)
(* Model of the Nerfstudio data parser                                     *)
(* (nerfstudio/data/dataparsers/nerfstudio_dataparser.py).                 *)
(*                                                                         *)
(* One parser object (self.config, self.downscale_factor) is called with   *)
(* a requested split, possibly several times.  A call walks the manifest's *)
(* frames, checks the mask and depth lists, selects the indices of the     *)
(* split, normalises the poses and returns the outputs, or ends in the     *)
(* exception the code raises.                                              *)
(*                                                                         *)
(* Representation.  A path data_dir/<prefix>/<name> is <<prefix, level,    *)
(* name>>: level 1 is the plain folder ("images"), level k > 1 the folder  *)
(* "<prefix>_k".  A dict is a function whose DOMAIN is its key set, so     *)
(* `key in d` is key \in DOMAIN d.  None is 0 for the downscale factors.   *)
(* Poses are one-dimensional integer camera origins; a normalised origin   *)
(* and a scale are exact fractions <<numerator, denominator>>.             *)
(* train_split_fraction is an exact fraction <<a, b>> (the code uses a     *)
(* float; for the sizes explored here the float and exact results agree).  *)
(***************************************************************************)
EXTENDS Integers, Sequences, FiniteSets, TLC

VARIABLES meta, config, fs, downscale_factor, pc, split, calls, i,
          df, max_res, image_filenames, mask_filenames, depth_filenames,
          poses, intr, distort, indices, outs, args, spc, run

vars == <<meta, config, fs, downscale_factor, pc, split, calls, i,
          df, max_res, image_filenames, mask_filenames, depth_filenames,
          poses, intr, distort, indices, outs, args, spc, run>>

inputs == <<meta, config, fs>>
locals == <<i, df, max_res, image_filenames, mask_filenames, depth_filenames,
            poses, intr, distort, indices>>
parser == <<inputs, downscale_factor, pc, split, calls, locals, outs>>
scripts == <<args, spc, run>>

(* ---------------------------- bounds ---------------------------------- *)
MaxFrames == 3
MaxPlainFrames == 5
MaxCalls == 2
MaxDen == 3
MaxStep == 11
MaxPad == 1

(* ------------------------ program constants --------------------------- *)
MAX_AUTO_RESOLUTION == 1600
SPLIT_MODE_ALL == "all"

Splits == {"train", "val", "test", "all"}
IntrKeys == {"fl_x", "fl_y", "cx", "cy", "h", "w"}
DistortKeys == {"k1", "k2", "k3", "k4", "p1", "p2"}
DistortFixedKeys == {"k1", "k2", "k3", "p1", "p2"}

(* ----------------------------- helpers -------------------------------- *)
Pow2(k) == 2 ^ k

Range(s) == {s[j] : j \in 1..Len(s)}

RECURSIVE SumSeq(_)
SumSeq(s) == IF s = <<>> THEN 0 ELSE Head(s) + SumSeq(Tail(s))

Abs(x) == IF x < 0 THEN -x ELSE x

MaxOf(S) == CHOOSE x \in S : \A y \in S : y <= x

RECURSIVE SortedSeq(_)
SortedSeq(S) ==
    IF S = {} THEN <<>>
    ELSE LET m == CHOOSE x \in S : \A y \in S : x <= y
         IN <<m>> \o SortedSeq(S \ {m})

(* list.index(x): 0-based position of the first occurrence, -1 for the     *)
(* ValueError the code gets when x is not in the list                      *)
IndexOf(s, x) ==
    IF \E j \in 1..Len(s) : s[j] = x
    THEN (CHOOSE j \in 1..Len(s) : s[j] = x /\ \A l \in 1..(j - 1) : s[l] # x) - 1
    ELSE 0 - 1

Exists(path) == path \in fs.files

(* _get_fname once self.downscale_factor is decided *)
FnameAt(factor, prefix, name) ==
    IF factor > 1 THEN <<prefix, factor, name>> ELSE <<prefix, 1, name>>

(* the factor _get_fname works with when no probe is needed *)
DecidedFactor ==
    IF downscale_factor # 0 THEN downscale_factor ELSE config.downscale_factor

NoOut == [status |-> "none"]
Err(e) == [status |-> e]

(* ------------------- dicts read by the frame loop --------------------- *)
Frames == meta.frames

(* lines 94-102: indices_json is the loaded file, or None *)
HasIndicesJson == config.indices_file.set /\ config.indices_file.is_file
indices_json == config.indices_file.json

(* variant: fx_fixed is not taken from the manifest *)
IntrFixed_NoFx(k) == k \in DOMAIN meta.attrs /\ k # "fl_x"

(* lines 109-114: fx_fixed, fy_fixed, cx_fixed, cy_fixed, height_fixed,    *)
(* width_fixed, one flag per intrinsic                                     *)
IntrFixed(k) == k \in DOMAIN meta.attrs

(* lines 115-119 *)
distort_fixed == \E k \in DistortFixedKeys : k \in DOMAIN meta.attrs

(* lines 163-170 and 340-347: the six arguments handed to                  *)
(* camera_utils.get_distortion_params, each 0.0 when its key is absent     *)
DistortionParams(d) ==
    [k \in DistortKeys |-> IF k \in DOMAIN d THEN d[k] ELSE 0]

(* ----------------------------- actions -------------------------------- *)

(* the locals of a call, before the frame loop (lines 104-126) and after  *)
(* the call has returned or raised                                        *)
FreshLocals ==
    [i |-> 1, df |-> 0, max_res |-> 0, image_filenames |-> <<>>,
     mask_filenames |-> <<>>, depth_filenames |-> <<>>, poses |-> <<>>,
     intr |-> [k \in IntrKeys |-> <<>>], distort |-> <<>>, indices |-> <<>>]

SetLocals(l) ==
    /\ i' = l.i
    /\ df' = l.df
    /\ max_res' = l.max_res
    /\ image_filenames' = l.image_filenames
    /\ mask_filenames' = l.mask_filenames
    /\ depth_filenames' = l.depth_filenames
    /\ poses' = l.poses
    /\ intr' = l.intr
    /\ distort' = l.distort
    /\ indices' = l.indices

(* the call ends in exception e; its locals are gone *)
Raise(e) ==
    /\ pc' = "idle"
    /\ outs' = [outs EXCEPT ![split] = Err(e)]
    /\ SetLocals(FreshLocals)

(* lines 84-126: entry of _generate_dataparser_outputs(split = s) *)
Call(s) ==
    /\ pc = "idle"
    /\ calls < MaxCalls
    /\ calls' = calls + 1
    /\ split' = s
    /\ SetLocals(FreshLocals)
    /\ IF config.indices_file.set /\ ~config.indices_file.is_file
       THEN /\ pc' = "idle"
            /\ outs' = [outs EXCEPT ![s] = Err("FileNotFoundError")]
       ELSE /\ pc' = "frames"
            /\ UNCHANGED outs
    /\ UNCHANGED <<scripts, inputs, downscale_factor>>

(* lines 398-403: _get_fname with no factor on the parser or the config    *)
(* opens the image to read its size                                        *)
ProbeOpen ==
    /\ pc = "frames"
    /\ i <= Len(Frames)
    /\ downscale_factor = 0
    /\ config.downscale_factor = 0
    /\ IF Exists(<<"images", 1, Frames[i].file_path>>)
       THEN /\ max_res' = fs.max_res
            /\ df' = 0
            /\ pc' = "probe"
            /\ UNCHANGED <<outs, i, image_filenames, mask_filenames,
                           depth_filenames, poses, intr, distort, indices>>
       ELSE Raise("FileNotFoundError")
    /\ UNCHANGED <<scripts, inputs, downscale_factor, split, calls>>

(* variant: the size test is <= instead of < *)
ProbeBreaks_Le(res, k, name) ==
    \/ res <= MAX_AUTO_RESOLUTION * Pow2(k)
    \/ ~Exists(<<"images", Pow2(k + 1), name>>)

(* lines 405-408: the two break conditions of the probe loop *)
ProbeBreaks(res, k, name) ==
    \/ res < MAX_AUTO_RESOLUTION * Pow2(k)
    \/ ~Exists(<<"images", Pow2(k + 1), name>>)

(* lines 404-412: one iteration of the probe loop *)
ProbeStep ==
    /\ pc = "probe"
    /\ IF ProbeBreaks(max_res, df, Frames[i].file_path)
       THEN /\ downscale_factor' = Pow2(df)
            /\ pc' = "frames"
            /\ UNCHANGED df
       ELSE /\ df' = df + 1
            /\ UNCHANGED <<downscale_factor, pc>>
    /\ UNCHANGED <<scripts, inputs, split, calls, i, max_res, image_filenames,
                   mask_filenames, depth_filenames, poses, intr, distort,
                   indices, outs>>

(* lines 128-187: one iteration of the frame loop.  The two skip branches  *)
(* (lines 134 and 140) increment num_skipped_image_filenames, a local      *)
(* that is never assigned before, which raises UnboundLocalError.          *)
ParseFrame ==
    /\ pc = "frames"
    /\ i <= Len(Frames)
    /\ DecidedFactor # 0
    /\ LET frame == Frames[i]
           d     == DecidedFactor
           fname == FnameAt(d, "images", frame.file_path)
       IN /\ downscale_factor' = d
          /\ IF ~Exists(fname)
             THEN Raise("UnboundLocalError")
             ELSE IF /\ HasIndicesJson
                     /\ \/ frame.file_path \notin DOMAIN indices_json
                        \/ indices_json[frame.file_path] = "ignore"
             THEN Raise("UnboundLocalError")
             ELSE IF \E k \in IntrKeys :
                        ~IntrFixed(k) /\ k \notin DOMAIN frame.attrs
             THEN Raise("AssertionError: not specified in frame")
             ELSE /\ intr' = [k \in IntrKeys |->
                                IF IntrFixed(k) THEN intr[k]
                                ELSE Append(intr[k], frame.attrs[k])]
                  /\ distort' = IF distort_fixed THEN distort
                                ELSE Append(distort, DistortionParams(frame.attrs))
                  /\ image_filenames' = Append(image_filenames, fname)
                  /\ poses' = Append(poses, frame.transform_matrix)
                  /\ mask_filenames' =
                        IF "mask_path" \in DOMAIN frame.attrs
                        THEN Append(mask_filenames,
                                    FnameAt(d, "masks", frame.attrs["mask_path"]))
                        ELSE mask_filenames
                  /\ depth_filenames' =
                        IF "depth_file_path" \in DOMAIN frame.attrs
                        THEN Append(depth_filenames,
                                    FnameAt(d, "depths", frame.attrs["depth_file_path"]))
                        ELSE depth_filenames
                  /\ i' = i + 1
                  /\ UNCHANGED <<pc, outs, df, max_res, indices>>
    /\ UNCHANGED <<scripts, inputs, split, calls>>

(* variant: only the mask list is checked *)
CheckLists_MaskOnly ==
    /\ pc = "frames"
    /\ i > Len(Frames)
    /\ IF ~(Len(mask_filenames) = 0 \/ Len(mask_filenames) = Len(image_filenames))
       THEN Raise("AssertionError: image and mask filenames")
       ELSE /\ pc' = "split"
            /\ UNCHANGED <<outs, locals>>
    /\ UNCHANGED <<scripts, inputs, downscale_factor, split, calls>>

(* lines 189-200: the two assertions after the frame loop *)
CheckLists ==
    /\ pc = "frames"
    /\ i > Len(Frames)
    /\ IF ~(Len(mask_filenames) = 0 \/ Len(mask_filenames) = Len(image_filenames))
       THEN Raise("AssertionError: image and mask filenames")
       ELSE IF ~(Len(depth_filenames) = 0 \/ Len(depth_filenames) = Len(image_filenames))
       THEN Raise("AssertionError: image and depth filenames")
       ELSE /\ pc' = "split"
            /\ UNCHANGED <<outs, locals>>
    /\ UNCHANGED <<scripts, inputs, downscale_factor, split, calls>>

(* ------------------------- split selection ---------------------------- *)
Ok(ix) == [status |-> "ok", indices |-> ix]

(* line 202 *)
has_split_files_spec ==
    \E s \in {"train", "val", "test"} : s \in DOMAIN meta.lists

(* lines 211-221 *)
split_strategy(s) ==
    IF s = SPLIT_MODE_ALL THEN {"train", "val", "test"} ELSE {s}

(* lines 228-239: the indices the indices file assigns to split s.  A key  *)
(* n of the file stands for "images/<n>", so Path(data_dir, key) is the    *)
(* level-1 path of n; list.index raises ValueError when it is not parsed.  *)
SplitByIndicesFile(s, filenames) ==
    LET keys == {n \in DOMAIN indices_json :
                    /\ indices_json[n] # "ignore"
                    /\ indices_json[n] \in split_strategy(s)}
    IN IF \E n \in keys : IndexOf(filenames, <<"images", 1, n>>) < 0
       THEN Err("ValueError")
       ELSE Ok(SortedSeq({IndexOf(filenames, <<"images", 1, n>>) : n \in keys}))

(* variant: listed file names that are not parsed are ignored *)
SplitByFilenames_NoValidation(s, filenames, factor) ==
    LET split_filenames == {FnameAt(factor, "images", x) : x \in meta.lists[s]}
    IN Ok(SortedSeq({j - 1 : j \in {l \in 1..Len(filenames) :
                                        filenames[l] \in split_filenames}}))

(* lines 240-249: the manifest's list of file names for split s *)
SplitByFilenames(s, filenames, factor) ==
    LET split_filenames == {FnameAt(factor, "images", x) : x \in meta.lists[s]}
        unmatched_filenames == split_filenames \ Range(filenames)
    IN IF unmatched_filenames # {}
       THEN Err("RuntimeError: filenames not found")
       ELSE Ok(SortedSeq({j - 1 : j \in {l \in 1..Len(filenames) :
                                            filenames[l] \in split_filenames}}))

(* math.ceil(n * a / b) for the fraction a / b *)
Ceil(n, frac) == (n * frac[1] + frac[2] - 1) \div frac[2]

(* variant: the samples are spaced by stop / num, without the endpoint *)
Linspace_NoEndpoint(stop, num) ==
    [j \in 1..num |-> ((j - 1) * stop) \div num]

(* np.linspace(0, stop, num, dtype=int): num samples start + j * step with *)
(* step = stop / (num - 1), the last one set to stop, truncated to int     *)
Linspace(stop, num) ==
    [j \in 1..num |->
        IF num = 1 THEN 0
        ELSE IF j = num THEN stop
        ELSE ((j - 1) * stop) \div (num - 1)]

(* np.setdiff1d(a, b): the sorted unique values of a that are not in b *)
Setdiff1d(a, b) == SortedSeq(Range(a) \ Range(b))

(* np.arange(n) *)
Arange(n) == [j \in 1..n |-> j - 1]

(* variant: "all" is handled like the eval splits *)
SplitByFraction_AllAsEval(s, num_images) ==
    LET num_train_images == Ceil(num_images, config.train_split_fraction)
        num_eval_images  == num_images - num_train_images
        i_all   == Arange(num_images)
        i_train == Linspace(num_images - 1, num_train_images)
        i_eval  == Setdiff1d(i_all, i_train)
    IN IF Len(i_eval) # num_eval_images
       THEN Err("AssertionError: num_eval_images")
       ELSE IF s = "train" THEN Ok(i_train)
       ELSE IF s \in {"val", "test", "all"} THEN Ok(i_eval)
       ELSE Err("ValueError")

(* lines 265-282: the split by train_split_fraction *)
SplitByFraction(s, num_images) ==
    LET num_train_images == Ceil(num_images, config.train_split_fraction)
        num_eval_images  == num_images - num_train_images
        i_all   == Arange(num_images)
        i_train == Linspace(num_images - 1, num_train_images)
        i_eval  == Setdiff1d(i_all, i_train)
    IN IF Len(i_eval) # num_eval_images
       THEN Err("AssertionError: num_eval_images")
       ELSE IF s = "train" THEN Ok(i_train)
       ELSE IF s \in {"val", "test"} THEN Ok(i_eval)
       ELSE IF s \in {"all"} THEN Ok(i_all)
       ELSE Err("ValueError")

(* variant: a missing list for the requested split falls back to the      *)
(* fraction                                                               *)
ResolveSplit_FallBack(s, filenames, factor) ==
    LET byfile == IF HasIndicesJson THEN SplitByIndicesFile(s, filenames)
                  ELSE Ok(<<>>)
    IN IF byfile.status # "ok" THEN byfile
       ELSE IF s \in DOMAIN meta.lists
            THEN SplitByFilenames(s, filenames, factor)
       ELSE SplitByFraction(s, Len(filenames))

(* lines 202-282: which of the three selections decides `indices`.  The    *)
(* indices-file block (line 203) is followed by a plain `if` (line 240),   *)
(* not an `elif`, so one of the later branches always runs after it.       *)
ResolveSplit(s, filenames, factor) ==
    LET byfile == IF HasIndicesJson THEN SplitByIndicesFile(s, filenames)
                  ELSE Ok(<<>>)
    IN IF byfile.status # "ok" THEN byfile
       ELSE IF s \in DOMAIN meta.lists
            THEN SplitByFilenames(s, filenames, factor)
       ELSE IF has_split_files_spec
            THEN Err("RuntimeError: list of filenames is missing")
       ELSE SplitByFraction(s, Len(filenames))

(* variant: the final emptiness assertion (line 284) is missing *)
SelectSplit_NoAssert ==
    /\ pc = "split"
    /\ LET r == ResolveSplit(split, image_filenames, downscale_factor)
       IN IF r.status # "ok"
          THEN Raise(r.status)
          ELSE /\ indices' = r.indices
               /\ pc' = "finish"
               /\ UNCHANGED <<outs, i, df, max_res, image_filenames,
                              mask_filenames, depth_filenames, poses, intr,
                              distort>>
    /\ UNCHANGED <<scripts, inputs, downscale_factor, split, calls>>

(* lines 202-284 *)
SelectSplit ==
    /\ pc = "split"
    /\ LET r == ResolveSplit(split, image_filenames, downscale_factor)
       IN IF r.status # "ok"
          THEN Raise(r.status)
          ELSE IF Len(r.indices) = 0
          THEN Raise("AssertionError: Indices array is empty")
          ELSE /\ indices' = r.indices
               /\ pc' = "finish"
               /\ UNCHANGED <<outs, i, df, max_res, image_filenames,
                              mask_filenames, depth_filenames, poses, intr,
                              distort>>
    /\ UNCHANGED <<scripts, inputs, downscale_factor, split, calls>>

(* ------------------------ pose normalisation -------------------------- *)

(* camera_utils.auto_orient_and_center_poses with center_method "poses":   *)
(* every origin minus the mean origin.  With n origins the centred origin  *)
(* j is c[j] / n for c[j] = n * p[j] - sum(p), and the transform is the    *)
(* translation by -sum(p) / n.                                             *)
auto_orient_and_center_poses(p) ==
    LET n == Len(p)
    IN [poses |-> [j \in 1..n |-> n * p[j] - SumSeq(p)],
        transform_matrix |-> <<0 - SumSeq(p), n>>]

(* lines 292-305: orientation, centring and scaling of the poses in p.     *)
(* Returns the scaled origins and scale_factor as fractions.               *)
NormalisePoses(p) ==
    LET n  == Len(p)
        oc == auto_orient_and_center_poses(p)
        m  == MaxOf({Abs(oc.poses[j]) : j \in 1..n})
    IN IF config.auto_scale_poses /\ m = 0
       THEN Err("ZeroDivisionError")
       ELSE LET den == IF config.auto_scale_poses THEN m ELSE n
                num == IF config.auto_scale_poses THEN n ELSE 1
            IN [status |-> "ok",
                poses |-> [j \in 1..n |-> <<oc.poses[j] * config.scale_factor, den>>],
                scale_factor |-> <<num * config.scale_factor, IF config.auto_scale_poses THEN m ELSE 1>>,
                transform_matrix |-> oc.transform_matrix]

(* lines 308-313 and 333-349: x[idx_tensor], the entries of x at `indices` *)
Take(x, ix) == [j \in 1..Len(ix) |-> x[ix[j] + 1]]

(* variant: the poses are filtered by the split first, then normalised    *)
BuildOutputs_FilterFirst(p, ix) ==
    LET norm == NormalisePoses(Take(p, ix))
    IN IF norm.status # "ok" THEN norm
       ELSE [status |-> "ok",
             image_filenames |-> Take(image_filenames, ix),
             mask_filenames |-> IF Len(mask_filenames) > 0
                                THEN Take(mask_filenames, ix) ELSE <<>>,
             depth_filenames |-> IF Len(depth_filenames) > 0
                                 THEN Take(depth_filenames, ix) ELSE <<>>,
             camera_to_worlds |-> norm.poses,
             intr |-> [k \in IntrKeys |->
                         IF IntrFixed(k)
                         THEN [fixed |-> TRUE, value |-> <<meta.attrs[k]>>]
                         ELSE [fixed |-> FALSE, value |-> Take(intr[k], ix)]],
             distortion_params |->
                 IF distort_fixed
                 THEN [fixed |-> TRUE, value |-> <<DistortionParams(meta.attrs)>>]
                 ELSE [fixed |-> FALSE, value |-> Take(distort, ix)],
             scaling_factor |-> downscale_factor,
             dataparser_scale |->
                 IF "applied_scale" \in DOMAIN meta.attrs
                 THEN <<norm.scale_factor[1] * meta.attrs["applied_scale"],
                        norm.scale_factor[2]>>
                 ELSE norm.scale_factor,
             dataparser_transform |-> norm.transform_matrix]

(* lines 292-387: normalise all parsed poses, then filter by the split     *)
BuildOutputs(p, ix) ==
    LET norm == NormalisePoses(p)
    IN IF norm.status # "ok" THEN norm
       ELSE [status |-> "ok",
             image_filenames |-> Take(image_filenames, ix),
             mask_filenames |-> IF Len(mask_filenames) > 0
                                THEN Take(mask_filenames, ix) ELSE <<>>,
             depth_filenames |-> IF Len(depth_filenames) > 0
                                 THEN Take(depth_filenames, ix) ELSE <<>>,
             camera_to_worlds |-> Take(norm.poses, ix),
             intr |-> [k \in IntrKeys |->
                         IF IntrFixed(k)
                         THEN [fixed |-> TRUE, value |-> <<meta.attrs[k]>>]
                         ELSE [fixed |-> FALSE, value |-> Take(intr[k], ix)]],
             distortion_params |->
                 IF distort_fixed
                 THEN [fixed |-> TRUE, value |-> <<DistortionParams(meta.attrs)>>]
                 ELSE [fixed |-> FALSE, value |-> Take(distort, ix)],
             scaling_factor |-> downscale_factor,
             dataparser_scale |->
                 IF "applied_scale" \in DOMAIN meta.attrs
                 THEN <<norm.scale_factor[1] * meta.attrs["applied_scale"],
                        norm.scale_factor[2]>>
                 ELSE norm.scale_factor,
             dataparser_transform |-> norm.transform_matrix]

(* lines 286-387 *)
Finish ==
    /\ pc = "finish"
    /\ pc' = "idle"
    /\ outs' = [outs EXCEPT ![split] = BuildOutputs(poses, indices)]
    /\ SetLocals(FreshLocals)
    /\ UNCHANGED <<scripts, inputs, downscale_factor, split, calls>>

(* --------------------------- the inputs ------------------------------- *)
(* Manifests, configurations and directory contents are drawn from the    *)
(* families below; each family varies the inputs of one part of the       *)
(* parser and keeps the others at a plain default.                        *)

EmptyDict == [k \in {} |-> 0]

(* the six intrinsics given once, at the top level of the manifest *)
MetaIntr ==
    ("fl_x" :> 500) @@ ("fl_y" :> 501) @@ ("cx" :> 400) @@ ("cy" :> 300)
        @@ ("h" :> 600) @@ ("w" :> 800)

NoIndicesFile == [set |-> FALSE, is_file |-> FALSE, json |-> EmptyDict]
DefaultFraction == <<9, 10>>
Fractions == {<<a, b>> : a \in 0..MaxDen, b \in 1..MaxDen} \cup {DefaultFraction}
UnitFractions == {f \in Fractions : f[1] <= f[2]}
ImageSizes == {800, 1600, 3200, 6400}
Levels == {2, 4, 8}
PoseValues == {0, 1, 3}
SplitNames == {"train", "val", "test", "ignore"}

PlainFrame(n, pose) ==
    [file_path |-> n, transform_matrix |-> pose, attrs |-> EmptyDict]
PlainFrames(n) == [j \in 1..n |-> PlainFrame(j, j * j)]

Files(names, levels) == {<<"images", l, x>> : l \in levels, x \in names}

MkConfig(ifile, frac, factor, auto) ==
    [indices_file |-> ifile, train_split_fraction |-> frac,
     downscale_factor |-> factor, auto_scale_poses |-> auto, scale_factor |-> 1]

PlainConfig == MkConfig(NoIndicesFile, DefaultFraction, 1, TRUE)

(* split by fraction: plain frames, every fraction in [0, 1] *)
InitFraction ==
    \E n \in 1..MaxPlainFrames, f \in UnitFractions :
        /\ meta = [frames |-> PlainFrames(n), attrs |-> MetaIntr, lists |-> EmptyDict]
        /\ config = MkConfig(NoIndicesFile, f, 1, TRUE)
        /\ fs = [files |-> Files(1..n, {1}), max_res |-> 800]

(* the lists tried for a split of a manifest with n frames: empty, some   *)
(* of the frames, all of them, and a file that is no frame                *)
ListChoices(n) == {{}, {1}, {n}, {1, n}, 1..n, {n + 1}}

(* `{split}_filenames` lists in the manifest, for at most two splits *)
InitLists ==
    \E n \in 2..MaxFrames, D \in SUBSET Splits, factor \in {1, 2} :
        /\ Cardinality(D) \in 1..2
        /\ \E l \in [D -> ListChoices(n)] :
              meta = [frames |-> PlainFrames(n), attrs |-> MetaIntr, lists |-> l]
        /\ config = MkConfig(NoIndicesFile, <<1, 2>>, factor, TRUE)
        /\ fs = [files |-> Files(1..n, {1, 2}), max_res |-> 800]

(* an indices file, with and without lists in the manifest *)
InitIndices ==
    \E n \in 2..MaxFrames, D \in SUBSET (1..MaxFrames),
       L \in {{}, {"train"}, {"train", "all"}}, factor \in {1, 2} :
        /\ D \subseteq 1..(n + 1)
        /\ Cardinality(D) >= n - 1
        /\ factor = 2 => L = {}
        /\ \E j \in [D -> SplitNames] :
              config = MkConfig([set |-> TRUE, is_file |-> TRUE, json |-> j],
                                <<1, 2>>, factor, TRUE)
        /\ meta = [frames |-> PlainFrames(n), attrs |-> MetaIntr,
                   lists |-> [s \in L |-> {1}]]
        /\ fs = [files |-> Files(1..n, {1, 2}), max_res |-> 800]

(* an indices file that is configured but is not a file *)
InitNoIndicesFile ==
    /\ config = MkConfig([set |-> TRUE, is_file |-> FALSE, json |-> EmptyDict],
                         <<1, 2>>, 1, TRUE)
    /\ meta = [frames |-> PlainFrames(2), attrs |-> MetaIntr, lists |-> EmptyDict]
    /\ fs = [files |-> Files(1..2, {1}), max_res |-> 800]

(* frames with and without mask and depth; at most one image is missing *)
InitFrames ==
    \E n \in 1..MaxFrames :
      \E M \in SUBSET (1..n), Dp \in SUBSET (1..n), missing \in 0..n :
        /\ meta = [frames |->
                      [j \in 1..n |->
                          [file_path |-> j, transform_matrix |-> j * j,
                           attrs |-> [k \in (IF j \in M THEN {"mask_path"} ELSE {})
                                          \cup (IF j \in Dp THEN {"depth_file_path"} ELSE {})
                                      |-> j]]],
                   attrs |-> MetaIntr, lists |-> EmptyDict]
        /\ config = PlainConfig
        /\ fs = [files |-> Files((1..n) \ {missing}, {1}), max_res |-> 800]

(* intrinsics at the top level, in the frames, in both or in neither *)
FrameIntrValue(j, k) == IF k = "fl_x" THEN 510 + j ELSE 610 + j
InitIntrinsics ==
    \E n \in 1..2, T \in SUBSET {"fl_x", "h"} :
      \E F \in [1..n -> SUBSET {"fl_x", "h"}] :
        /\ meta = [frames |->
                      [j \in 1..n |->
                          [file_path |-> j, transform_matrix |-> j * j,
                           attrs |-> [k \in F[j] |-> FrameIntrValue(j, k)]]],
                   attrs |-> [k \in (IntrKeys \ {"fl_x", "h"}) \cup T |-> MetaIntr[k]],
                   lists |-> EmptyDict]
        /\ config = PlainConfig
        /\ fs = [files |-> Files(1..n, {1}), max_res |-> 800]

(* distortion keys at the top level and in the frames *)
InitDistortion ==
    \E n \in 1..2, T \in SUBSET {"k1", "k4", "p2"} :
      \E F \in [1..n -> SUBSET {"k1", "k4", "p2"}] :
        /\ meta = [frames |->
                      [j \in 1..n |->
                          [file_path |-> j, transform_matrix |-> j * j,
                           attrs |-> [k \in F[j] |-> 10 + j]]],
                   attrs |-> MetaIntr @@ [k \in T |-> 7],
                   lists |-> EmptyDict]
        /\ config = PlainConfig
        /\ fs = [files |-> Files(1..n, {1}), max_res |-> 800]

(* image sizes and downscaled folders, with and without a configured      *)
(* downscale factor                                                       *)
InitProbe ==
    \E n \in 1..2, res \in ImageSizes, factor \in {0, 1, 2},
       L1 \in SUBSET Levels, L2 \in {{}, Levels}, E \in SUBSET (1..2) :
        /\ meta = [frames |-> PlainFrames(n), attrs |-> MetaIntr, lists |-> EmptyDict]
        /\ config = MkConfig(NoIndicesFile, DefaultFraction, factor, TRUE)
        /\ fs = [files |-> Files(E, {1}) \cup Files({1}, L1) \cup Files({2}, L2),
                 max_res |-> res]

(* camera origins, with and without auto scaling and applied_scale *)
InitPoses ==
    \E n \in 1..MaxFrames, auto \in BOOLEAN, as \in BOOLEAN :
      \E p \in [1..n -> PoseValues] :
        /\ meta = [frames |-> [j \in 1..n |-> PlainFrame(j, p[j])],
                   attrs |-> IF as THEN MetaIntr @@ ("applied_scale" :> 2)
                             ELSE MetaIntr,
                   lists |-> EmptyDict]
        /\ config = MkConfig(NoIndicesFile, <<1, 2>>, 1, auto)
        /\ fs = [files |-> Files(1..n, {1}), max_res |-> 800]

(* ============== the scripts that load a checkpoint ==================== *)
(* ComputePSNR.main (nerfstudio/scripts/eval.py), RunViewer                *)
(* (scripts/viewer/run_viewer.py), eval_setup and eval_load_checkpoint     *)
(* (nerfstudio/utils/eval_utils.py), get_step_from_ckpt_path               *)
(* (nerfstudio/scripts/my_utils.py).                                       *)
(*                                                                         *)
(* Representation.  A string is a sequence of tokens: the substrings the   *)
(* code splits on ("step-", ".ckpt", "_n_", "-") are one token each, the   *)
(* decimal digits are tokens, "x" is any other text.  An Optional[Path]    *)
(* is [set, name]; set = FALSE is None.  `args` holds what the script is   *)
(* started with and what it reads (command line, YAML config, checkpoint   *)
(* file), `spc` is the position in the script, `run` its variables and     *)
(* what it has written.                                                    *)

DigitChars == <<"0", "1", "2", "3", "4", "5", "6", "7", "8", "9">>

NoPath == [set |-> FALSE, name |-> <<>>]
APath(n) == [set |-> TRUE, name |-> n]

Val(v) == [status |-> "ok", value |-> v]
Exc(e) == [status |-> e]

(* str.find / str.rfind on tokens: 0 when the token does not occur *)
Find(s, t) ==
    IF t \in Range(s)
    THEN CHOOSE k \in 1..Len(s) : s[k] = t /\ \A j \in 1..(k - 1) : s[j] # t
    ELSE 0

RFind(s, t) ==
    IF t \in Range(s)
    THEN CHOOSE k \in 1..Len(s) : s[k] = t /\ \A j \in (k + 1)..Len(s) : s[j] # t
    ELSE 0

(* PurePath.stem: the name without its last suffix; ".ckpt" is the only   *)
(* token with a dot, and a leading dot starts no suffix                   *)
Stem(name) ==
    LET k == RFind(name, ".ckpt")
    IN IF k > 1 THEN SubSeq(name, 1, k - 1) ELSE name

(* str.split(sep): the pieces between the occurrences of sep *)
RECURSIVE StrSplit(_, _)
StrSplit(s, sep) ==
    LET k == Find(s, sep)
    IN IF k = 0 THEN <<s>>
       ELSE <<SubSeq(s, 1, k - 1)>> \o StrSplit(SubSeq(s, k + 1, Len(s)), sep)

DigitOf(c) == (CHOOSE k \in 1..10 : DigitChars[k] = c) - 1

RECURSIVE IntOf(_)
IntOf(s) ==
    IF s = <<>> THEN 0
    ELSE 10 * IntOf(SubSeq(s, 1, Len(s) - 1)) + DigitOf(s[Len(s)])

(* int(str): ValueError unless the text is a non-empty run of digits *)
int(s) ==
    IF s = <<>> \/ \E j \in 1..Len(s) : s[j] \notin Range(DigitChars)
    THEN Exc("ValueError")
    ELSE Val(IntOf(s))

(* my_utils.py lines 107-111 *)
get_step_from_ckpt_path(checkpoint_path) ==
    IF ~checkpoint_path.set THEN Exc("AttributeError")
    ELSE LET parts == StrSplit(Stem(checkpoint_path.name), "step-")
         IN IF Len(parts) < 2 THEN Exc("IndexError")
            ELSE int(StrSplit(parts[2], ".ckpt")[1])

(* my_utils.py lines 114-115; called when "_n_" is in the name *)
get_sequence_size_from_experiment(experiment_name) ==
    int(StrSplit(StrSplit(experiment_name, "_n_")[2], "-")[1])

(* eval_utils.py lines 35-62.  The module does not import                 *)
(* get_step_from_ckpt_path (imports: lines 20-32), so line 56 raises      *)
(* NameError.                                                             *)
eval_load_checkpoint(load_ckpt, loaded_state) ==
    IF ~load_ckpt.set THEN Exc("TypeError")
    ELSE IF "step" \notin DOMAIN loaded_state \/ loaded_state["step"] = 0
         THEN Exc("NameError: get_step_from_ckpt_path")
    ELSE [status |-> "ok", checkpoint_path |-> load_ckpt,
          load_step |-> loaded_state["step"]]

(* eval_utils.py lines 65-128.  Trainer and NerfactoModel (lines 101-102) *)
(* are not imported either.  train_size_initial = 0 is None.              *)
eval_setup(test_mode, load_ckpt, indices_file) ==
    LET yaml == args.yaml
        cfg == [status |-> "ok",
                load_ckpt |-> IF load_ckpt.set THEN load_ckpt ELSE yaml.load_ckpt,
                indices_file |-> IF indices_file.set THEN indices_file
                                 ELSE yaml.indices_file,
                num_rays_per_chunk |-> yaml.num_rays_per_chunk,
                experiment_name |-> yaml.experiment_name]
    IN IF load_ckpt.set /\ yaml.train_size_initial = 0
       THEN Exc("NameError: Trainer")
       ELSE LET r == eval_load_checkpoint(cfg.load_ckpt, args.loaded_state)
            IN IF r.status # "ok" THEN Exc(r.status)
               ELSE [status |-> "ok", config |-> cfg,
                     pipeline |-> [status |-> "ok", test_mode |-> test_mode,
                                   step |-> r.load_step],
                     checkpoint_path |-> r.checkpoint_path, step |-> r.load_step]

(* eval.py line 55 *)
EvalSplits == <<"val", "test">>

Unbound == [status |-> "none"]

(* the variables of a script before it starts; dt is self.dataset_type *)
FreshRun(dt) ==
    [split_ix |-> 1, config |-> Unbound, pipeline |-> Unbound,
     checkpoint_path |-> NoPath, benchmark_info |-> Unbound,
     metrics_dict |-> FALSE, scene_diverged |-> FALSE,
     files |-> [s \in Range(EvalSplits) |-> Unbound],
     dataset_type |-> dt, scene |-> Unbound, isTraining |-> "unset",
     log_errors |-> "", update_step |-> 0, update_scene |-> "", error |-> ""]

(* the script ends in exception e *)
ScriptRaise(e) ==
    /\ spc' = "raised"
    /\ run' = [run EXCEPT !.error = e]

(* eval.py lines 55-62: the head of the loop and the call of eval_setup *)
EvalSetup ==
    /\ spc = "setup"
    /\ LET r == eval_setup(EvalSplits[run.split_ix], args.load_ckpt, NoPath)
       IN IF r.status # "ok" THEN ScriptRaise(r.status)
          ELSE /\ spc' = "prepare"
               /\ run' = [run EXCEPT !.config = r.config,
                                     !.pipeline = r.pipeline,
                                     !.checkpoint_path = r.checkpoint_path]
    /\ UNCHANGED <<args, parser>>

(* eval.py lines 63-81 *)
EvalPrepare ==
    /\ spc = "prepare"
    /\ LET step == get_step_from_ckpt_path(run.checkpoint_path)
           name == run.config.experiment_name
           sequence_size == IF "_n_" \in Range(name)
                            THEN get_sequence_size_from_experiment(name)
                            ELSE Val(0)
       IN IF step.status # "ok" THEN ScriptRaise(step.status)
          ELSE IF sequence_size.status # "ok" THEN ScriptRaise(sequence_size.status)
          ELSE /\ spc' = "metrics"
               /\ run' = [run EXCEPT
                     !.benchmark_info =
                         [status |-> "ok", step |-> step.value,
                          sequence_size |-> sequence_size.value,
                          metrics |-> FALSE, keys |-> {}, scene_diverged |-> FALSE],
                     !.scene_diverged = FALSE]
    /\ UNCHANGED <<args, parser>>

(* eval.py lines 82-90: get_average_eval_image_metrics returns or raises  *)
(* SceneDiverged                                                          *)
EvalMetrics ==
    /\ spc = "metrics"
    /\ \E diverged \in BOOLEAN :
          run' = [run EXCEPT
                    !.metrics_dict = IF diverged THEN @ ELSE TRUE,
                    !.scene_diverged = diverged,
                    !.benchmark_info =
                        [@ EXCEPT !.metrics = ~diverged,
                                  !.keys = {"scene_diverged"},
                                  !.scene_diverged = diverged]]
    /\ spc' = "write"
    /\ UNCHANGED <<args, parser>>

(* eval.py lines 92-93 *)
EvalWrite ==
    /\ spc = "write"
    /\ run' = [run EXCEPT !.files[EvalSplits[run.split_ix]] = run.benchmark_info]
    /\ spc' = "cleanup"
    /\ UNCHANGED <<args, parser>>

(* eval.py lines 95-101: `del metrics_dict` of a name that is not bound   *)
(* raises UnboundLocalError                                               *)
EvalCleanup ==
    /\ spc = "cleanup"
    /\ IF ~run.metrics_dict
       THEN /\ spc' = "raised"
            /\ run' = [run EXCEPT !.pipeline = Unbound, !.config = Unbound,
                                  !.benchmark_info = Unbound,
                                  !.error = "UnboundLocalError"]
       ELSE /\ run' = [run EXCEPT !.pipeline = Unbound, !.config = Unbound,
                                  !.benchmark_info = Unbound,
                                  !.metrics_dict = FALSE,
                                  !.split_ix = IF @ < Len(EvalSplits) THEN @ + 1 ELSE @]
            /\ spc' = IF run.split_ix < Len(EvalSplits) THEN "setup" ELSE "done"
    /\ UNCHANGED <<args, parser>>

(* run_viewer.py lines 56-68: eval_setup returns four values and line 62  *)
(* unpacks three                                                          *)
ViewerMain ==
    /\ spc = "main"
    /\ LET dt == IF args.indices_file.set THEN SPLIT_MODE_ALL ELSE run.dataset_type
           r == eval_setup("test", args.load_ckpt, args.indices_file)
       IN run' = [run EXCEPT !.dataset_type = dt,
                             !.error = IF r.status # "ok" THEN r.status
                                       ELSE "ValueError: too many values to unpack"]
    /\ spc' = "raised"
    /\ UNCHANGED <<args, parser>>

(* run_viewer.py lines 106-110 *)
dataset_map ==
    ("train" :> "train_dataset") @@ ("val" :> "eval_dataset")
        @@ (SPLIT_MODE_ALL :> "full_dataset")

(* run_viewer.py lines 78-116: _start_viewer(config, pipeline) up to the  *)
(* loop; the config is the loaded one                                     *)
StartViewer ==
    /\ spc = "start_viewer"
    /\ LET step == get_step_from_ckpt_path(args.yaml.load_ckpt)
           dataset == dataset_map[run.dataset_type]
       IN IF step.status # "ok" THEN ScriptRaise(step.status)
          ELSE IF dataset \in args.empty_datasets THEN ScriptRaise("AssertionError")
          ELSE /\ spc' = "loop_head"
               /\ run' = [run EXCEPT
                     !.scene = [status |-> "ok", dataset |-> dataset,
                                start_train |-> FALSE]]
    /\ UNCHANGED <<args, parser>>

(* run_viewer.py lines 118-119 *)
LoopWrite ==
    /\ spc = "loop_head"
    /\ run' = [run EXCEPT !.isTraining = "False"]
    /\ spc' = "loop_update"
    /\ UNCHANGED <<args, parser>>

GPU_OOM == "Error: GPU out of memory. Reduce resolution to prevent viewer from crashing."

(* variant: the RuntimeError of update_scene is not caught *)
UpdateViewerState_NoCatch ==
    /\ spc = "loop_update"
    /\ \E raises \in BOOLEAN :
          IF raises
          THEN /\ spc' = "raised"
               /\ run' = [run EXCEPT !.update_step = 1, !.isTraining = "stale",
                                     !.update_scene = "RuntimeError",
                                     !.error = "RuntimeError"]
          ELSE /\ spc' = "loop_head"
               /\ run' = [run EXCEPT !.update_step = 1, !.isTraining = "stale",
                                     !.update_scene = "returned"]
    /\ UNCHANGED <<args, parser>>

(* run_viewer.py lines 120-145: _update_viewer_state; update_scene is     *)
(* called with step 1 and returns or raises RuntimeError (update_scene    *)
(* records which), and the viewer may since have changed                  *)
(* renderingState/isTraining                                              *)
UpdateViewerState ==
    /\ spc = "loop_update"
    /\ \E raises \in BOOLEAN :
          run' = [run EXCEPT !.update_step = 1, !.isTraining = "stale",
                             !.update_scene = IF raises THEN "RuntimeError"
                                              ELSE "returned",
                             !.log_errors = IF raises THEN GPU_OOM ELSE @]
    /\ spc' = "loop_head"
    /\ UNCHANGED <<args, parser>>

(* no script is running: the parser is used on its own *)
NoScript ==
    /\ args = [program |-> "none", load_ckpt |-> NoPath, indices_file |-> NoPath,
               dataset_type |-> "val", loaded_state |-> EmptyDict,
               empty_datasets |-> {},
               yaml |-> [load_ckpt |-> NoPath, indices_file |-> NoPath,
                         num_rays_per_chunk |-> 0, experiment_name |-> <<>>,
                         train_size_initial |-> 0]]
    /\ spc = "off"
    /\ run = FreshRun("val")

(* the parser object after construction, before the first call *)
InitParser ==
    /\ downscale_factor = 0
    /\ pc = "idle"
    /\ split = "train"
    /\ calls = 0
    /\ i = FreshLocals.i
    /\ df = FreshLocals.df
    /\ max_res = FreshLocals.max_res
    /\ image_filenames = FreshLocals.image_filenames
    /\ mask_filenames = FreshLocals.mask_filenames
    /\ depth_filenames = FreshLocals.depth_filenames
    /\ poses = FreshLocals.poses
    /\ intr = FreshLocals.intr
    /\ distort = FreshLocals.distort
    /\ indices = FreshLocals.indices
    /\ outs = [s \in Splits |-> NoOut]

Init ==
    /\ \/ InitFraction
       \/ InitLists
       \/ InitIndices
       \/ InitNoIndicesFile
       \/ InitFrames
       \/ InitIntrinsics
       \/ InitDistortion
       \/ InitProbe
       \/ InitPoses
    /\ InitParser
    /\ NoScript

Next ==
    \/ \E s \in Splits : Call(s)
    \/ ProbeOpen
    \/ ProbeStep
    \/ ParseFrame
    \/ CheckLists
    \/ SelectSplit
    \/ Finish

Spec == Init /\ [][Next]_vars

(* The probe family alone, with the fairness of a sequential program: a   *)
(* loop iteration that can run does run.                                  *)
InitProbeOnly == InitProbe /\ InitParser /\ NoScript

SpecProbe == InitProbeOnly /\ [][Next]_vars /\ WF_vars(ProbeStep)

(* ------------------- the scripts as a state machine ------------------- *)

(* step-<digits>.ckpt as the trainer names a checkpoint, with `pad`       *)
(* leading zeros                                                          *)
RECURSIVE DecDigits(_)
DecDigits(n) ==
    IF n < 10 THEN <<DigitChars[n + 1]>>
    ELSE DecDigits(n \div 10) \o <<DigitChars[(n % 10) + 1]>>

FormatCkptName(n, pad) ==
    <<"step-">> \o [j \in 1..pad |-> "0"] \o DecDigits(n) \o <<".ckpt">>

CkptNames ==
    {FormatCkptName(n, p) : n \in 0..MaxStep, p \in 0..MaxPad}
        \cup {<<"x", ".ckpt">>, <<"step-", ".ckpt">>, <<"step-", "x", ".ckpt">>}

(* the checkpoint's dict: with or without the key "step" *)
LoadedStates == {EmptyDict} \cup {[k \in {"step"} |-> v] : v \in {0, 1, MaxStep}}

ExperimentNames == {<<"x">>, <<"x", "_n_", "8", "-", "x">>, <<"x", "_n_", "x">>}

DatasetTypes == {"train", "val", SPLIT_MODE_ALL}

Yaml(ckpt, tsi, name) ==
    [load_ckpt |-> ckpt, indices_file |-> NoPath, num_rays_per_chunk |-> 4096,
     experiment_name |-> name, train_size_initial |-> tsi]

(* the parser of the pipeline is not called by the scripts themselves *)
ParserAside ==
    /\ meta = [frames |-> PlainFrames(1), attrs |-> MetaIntr, lists |-> EmptyDict]
    /\ config = PlainConfig
    /\ fs = [files |-> Files(1..1, {1}), max_res |-> 800]
    /\ InitParser

(* ComputePSNR(load_config, experiment_suffix, load_ckpt).main() *)
InitEval ==
    \E n \in CkptNames, st \in LoadedStates, tsi \in {0, 50},
       name \in ExperimentNames :
        /\ args = [program |-> "eval", load_ckpt |-> APath(n),
                   indices_file |-> NoPath, dataset_type |-> "val",
                   loaded_state |-> st, empty_datasets |-> {},
                   yaml |-> Yaml(NoPath, tsi, name)]
        /\ spc = "setup"
        /\ run = FreshRun("val")

(* RunViewer(load_config, load_ckpt, viewer, indices_file,                *)
(* dataset_type).main()                                                   *)
InitViewer ==
    \E ckpt \in {NoPath, APath(FormatCkptName(MaxStep, 0))},
       saved \in {NoPath, APath(FormatCkptName(1, MaxPad))},
       ifile \in {NoPath, APath(<<"x">>)}, dt \in DatasetTypes,
       st \in LoadedStates, tsi \in {0, 50} :
        /\ args = [program |-> "viewer", load_ckpt |-> ckpt,
                   indices_file |-> ifile, dataset_type |-> dt,
                   loaded_state |-> st, empty_datasets |-> {},
                   yaml |-> Yaml(saved, tsi, <<"x">>)]
        /\ spc = "main"
        /\ run = FreshRun(dt)

(* RunViewer(...)._start_viewer(config, pipeline) with a loaded config    *)
(* and pipeline                                                           *)
InitStartViewer ==
    \E ckpt \in {NoPath} \cup {APath(n) : n \in CkptNames}, dt \in DatasetTypes,
       empty \in {{}, {"eval_dataset"}, {"train_dataset", "full_dataset"}} :
        /\ args = [program |-> "start_viewer", load_ckpt |-> NoPath,
                   indices_file |-> NoPath, dataset_type |-> dt,
                   loaded_state |-> [k \in {"step"} |-> 1],
                   empty_datasets |-> empty,
                   yaml |-> Yaml(ckpt, 50, <<"x">>)]
        /\ spc = "start_viewer"
        /\ run = FreshRun(dt)

InitScripts ==
    /\ \/ InitEval
       \/ InitViewer
       \/ InitStartViewer
    /\ ParserAside

NextScripts ==
    \/ EvalSetup
    \/ EvalPrepare
    \/ EvalMetrics
    \/ EvalWrite
    \/ EvalCleanup
    \/ ViewerMain
    \/ StartViewer
    \/ LoopWrite
    \/ UpdateViewerState

SpecScripts == InitScripts /\ [][NextScripts]_vars

(* ============================ properties ============================== *)

NumParsed == Len(image_filenames)
FractionMode == ~config.indices_file.set /\ DOMAIN meta.lists = {}
UnitFraction ==
    config.train_split_fraction[1] <= config.train_split_fraction[2]

IsSet(ix) == \A a, b \in 1..Len(ix) : ix[a] = ix[b] => a = b

(* C1: with an indices file configured, the indices selected for the      *)
(* requested split are exactly the parsed frames the indices file assigns *)
(* to that split, whatever lists the manifest has and whatever the        *)
(* fraction is.                                                           *)
C1_IndicesFilePrecedence ==
    (pc = "finish" /\ HasIndicesJson) =>
        LET assigned == {j \in 1..NumParsed :
                            LET n == image_filenames[j][3]
                            IN /\ n \in DOMAIN indices_json
                               /\ indices_json[n] \in
                                     (IF split = "all" THEN {"train", "val", "test"}
                                      ELSE {split})}
        IN Range(indices) = {j - 1 : j \in assigned}

(* C2: in fraction mode with a fraction in [0, 1] the train split is      *)
(* exactly ceil(N * fraction) distinct indices of 0..N-1, evenly spaced   *)
(* and containing 0 and N-1 when there are at least two; the val/test     *)
(* split is the remaining N - ceil(N * fraction) indices, disjoint from   *)
(* the train split and covering 0..N-1 with it; the assertion             *)
(* len(i_eval) == num_eval_images never fails.                            *)
C2_State ==
    (FractionMode /\ UnitFraction) =>
        \A s \in Splits : outs[s].status # "AssertionError: num_eval_images"

(* the step that selects the split *)
C2_Step ==
    (pc = "split" /\ FractionMode /\ UnitFraction) =>
        LET N == NumParsed
            a == config.train_split_fraction[1]
            b == config.train_split_fraction[2]
            m == CHOOSE c \in 0..N : c * b >= N * a /\ (c = 0 \/ (c - 1) * b < N * a)
            train == Range(SplitByFraction("train", N).indices)
            sel == indices'
        IN /\ split = "train" =>
                 /\ Len(sel) = m
                 /\ IsSet(sel)
                 /\ Range(sel) \subseteq 0..(N - 1)
                 /\ m >= 2 => (sel[1] = 0 /\ sel[m] = N - 1)
                 /\ \A j \in 1..(m - 1) : sel[j] < sel[j + 1]
                 /\ \A j, l \in 1..(m - 1) :
                       (sel[j + 1] - sel[j]) - (sel[l + 1] - sel[l]) <= 1
           /\ split \in {"val", "test"} =>
                 /\ Len(sel) = N - m
                 /\ IsSet(sel)
                 /\ Range(sel) \cap train = {}
                 /\ Range(sel) \cup train = 0..(N - 1)

C2_FractionSplit == []C2_State /\ [][C2_Step]_vars

C2_Witness ==
    /\ FractionMode
    /\ pc = "finish"
    /\ split = "train"
    /\ NumParsed = 5
    /\ indices = <<0, 2, 4>>

C4_State ==
    /\ pc = "finish" => Len(indices) > 0
    /\ \A s \in Splits :
          outs[s].status = "ok" => Len(outs[s].image_filenames) > 0

C4_Step ==
    (/\ pc = "split"
     /\ ResolveSplit(split, image_filenames, downscale_factor).status = "ok"
     /\ ResolveSplit(split, image_filenames, downscale_factor).indices = <<>>)
    => /\ pc' = "idle"
       /\ outs'[split].status = "AssertionError: Indices array is empty"

C4_NonEmpty == []C4_State /\ [][C4_Step]_vars

C4_Witness ==
    /\ FractionMode
    /\ outs["train"].status = "ok"
    /\ outs["val"].status = "AssertionError: Indices array is empty"

(* C5: after the frame loop the mask list is empty or as long as the      *)
(* image list, and so is the depth list; a manifest where only some of    *)
(* the parsed frames carry a mask (or depth) path ends in an assertion    *)
(* failure before any split is selected.                                  *)
ListsAgree ==
    /\ Len(mask_filenames) = 0 \/ Len(mask_filenames) = Len(image_filenames)
    /\ Len(depth_filenames) = 0 \/ Len(depth_filenames) = Len(image_filenames)

C5_State == pc \in {"split", "finish"} => ListsAgree

C5_Step ==
    (pc = "frames" /\ i > Len(Frames) /\ ~ListsAgree)
    => /\ pc' = "idle"
       /\ outs'[split].status \in {"AssertionError: image and mask filenames",
                                   "AssertionError: image and depth filenames"}
       /\ indices' = <<>>
       /\ outs'[split].status # "ok"

C5_ListLengths == []C5_State /\ [][C5_Step]_vars

C5_Witness ==
    /\ pc = "idle"
    /\ outs[split].status = "AssertionError: image and depth filenames"
    /\ Len(Frames) = 3
    /\ Cardinality({j \in 1..3 : "depth_file_path" \in DOMAIN Frames[j].attrs}) = 2
    /\ \A j \in 1..3 : "mask_path" \in DOMAIN Frames[j].attrs

(* the frame of the manifest an output path was resolved from *)
FrameOfPath(path) ==
    CHOOSE f \in Range(Frames) : f.file_path = path[3]

NumCameras(o) == Len(o.image_filenames)

(* C6: orientation, centring and scaling are computed from all parsed     *)
(* frames before the split is applied: the returned scale and transform   *)
(* are the same for every requested split, and a frame has the same pose  *)
(* in every split that returns it.                                        *)
C6_GlobalNormalisation ==
    \A s1, s2 \in Splits :
        (outs[s1].status = "ok" /\ outs[s2].status = "ok") =>
            /\ outs[s1].dataparser_scale = outs[s2].dataparser_scale
            /\ outs[s1].dataparser_transform = outs[s2].dataparser_transform
            /\ \A j1 \in 1..NumCameras(outs[s1]), j2 \in 1..NumCameras(outs[s2]) :
                  outs[s1].image_filenames[j1] = outs[s2].image_filenames[j2]
                  => outs[s1].camera_to_worlds[j1] = outs[s2].camera_to_worlds[j2]

C6_Witness ==
    /\ outs["train"].status = "ok"
    /\ outs["all"].status = "ok"
    /\ config.auto_scale_poses
    /\ [j \in 1..Len(Frames) |-> Frames[j].transform_matrix] = <<0, 1, 3>>
    /\ NumCameras(outs["train"]) = 2
    /\ NumCameras(outs["all"]) = 3

(* the value of intrinsic k the outputs give to camera j *)
CamIntr(o, k, j) ==
    IF o.intr[k].fixed THEN o.intr[k].value[1] ELSE o.intr[k].value[j]

(* C7 as stated: for each intrinsic, a frame's own value is used when the *)
(* frame carries one and the manifest-level value only for frames that do *)
(* not carry it.                                                          *)
C7_FrameValueFirst ==
    \A s \in Splits :
        outs[s].status = "ok" =>
            \A k \in IntrKeys, j \in 1..NumCameras(outs[s]) :
                LET f == FrameOfPath(outs[s].image_filenames[j])
                IN CamIntr(outs[s], k, j) =
                      IF k \in DOMAIN f.attrs THEN f.attrs[k] ELSE meta.attrs[k]

(* C7 amended: for each intrinsic independently, a manifest-level value   *)
(* is used for every camera, also for frames that carry their own value;  *)
(* without a manifest-level value each camera gets its frame's own value, *)
(* and a parsed frame that lacks it ends the call in an assertion error.  *)
C7_State ==
    \A s \in Splits :
        outs[s].status = "ok" =>
            \A k \in IntrKeys, j \in 1..NumCameras(outs[s]) :
                LET f == FrameOfPath(outs[s].image_filenames[j])
                IN IF k \in DOMAIN meta.attrs
                   THEN CamIntr(outs[s], k, j) = meta.attrs[k]
                   ELSE /\ k \in DOMAIN f.attrs
                        /\ CamIntr(outs[s], k, j) = f.attrs[k]

(* the frame loop is at a frame that is not skipped *)
AtParsedFrame ==
    /\ pc = "frames"
    /\ i <= Len(Frames)
    /\ DecidedFactor # 0
    /\ Exists(FnameAt(DecidedFactor, "images", Frames[i].file_path))
    /\ HasIndicesJson =>
          /\ Frames[i].file_path \in DOMAIN indices_json
          /\ indices_json[Frames[i].file_path] # "ignore"

C7_Step ==
    (/\ AtParsedFrame
     /\ \E k \in IntrKeys : k \notin DOMAIN meta.attrs /\ k \notin DOMAIN Frames[i].attrs)
    => /\ pc' = "idle"
       /\ outs'[split].status = "AssertionError: not specified in frame"

C7_ManifestValueFirst == []C7_State /\ [][C7_Step]_vars

C7_Witness ==
    /\ outs["all"].status = "ok"
    /\ NumCameras(outs["all"]) = 2
    /\ "fl_x" \in DOMAIN meta.attrs
    /\ "h" \notin DOMAIN meta.attrs
    /\ \A j \in 1..2 : DOMAIN Frames[j].attrs = {"fl_x", "h"}

(* C8: if the manifest carries any of k1, k2, k3, k4, p1, p2 at the top   *)
(* level, one manifest-level parameter set is used for all cameras and    *)
(* reflects every manifest-level key; otherwise each camera gets its own  *)
(* frame's parameters, 0 for the keys the frame lacks.                    *)
C8_DistortionDuality ==
    \A s \in Splits :
        outs[s].status = "ok" =>
            LET dp == outs[s].distortion_params
            IN IF \E k \in DistortKeys : k \in DOMAIN meta.attrs
               THEN /\ dp.fixed
                    /\ \A k \in DistortKeys \cap DOMAIN meta.attrs :
                          dp.value[1][k] = meta.attrs[k]
               ELSE /\ ~dp.fixed
                    /\ \A j \in 1..NumCameras(outs[s]), k \in DistortKeys :
                          LET f == FrameOfPath(outs[s].image_filenames[j])
                          IN dp.value[j][k] =
                                IF k \in DOMAIN f.attrs THEN f.attrs[k] ELSE 0

(* C9: with no downscale factor on the parser or the config, the probe    *)
(* ends and sets downscale_factor to 2^k for the least k >= 0 such that   *)
(* max(h, w) / 2^k < 1600 or images_{2^(k+1)}/<name> does not exist; for  *)
(* every smaller j the size is >= 1600 and the folder has the file.       *)
ProbeStops(k) ==
    \/ fs.max_res < 1600 * (2 ^ k)
    \/ <<"images", 2 ^ (k + 1), Frames[1].file_path>> \notin fs.files

C9_State ==
    /\ pc = "probe" => \A j \in 0..(df - 1) : ~ProbeStops(j)
    /\ (config.downscale_factor = 0 /\ downscale_factor # 0) =>
          \E k \in 0..downscale_factor :
              /\ downscale_factor = 2 ^ k
              /\ ProbeStops(k)
              /\ \A j \in 0..(k - 1) : ~ProbeStops(j)

C9_Probe == []C9_State /\ (pc = "probe" ~> pc = "frames")

C9_Witness ==
    /\ config.downscale_factor = 0
    /\ pc = "frames"
    /\ fs.max_res = 6400
    /\ downscale_factor = 4
    /\ <<"images", 8, 1>> \notin fs.files

(* C10: a frame whose resolved image file does not exist is skipped: it   *)
(* adds nothing to the lists and the loop goes on to the next frame.      *)
C10_SkipStep ==
    (/\ pc = "frames"
     /\ i <= Len(Frames)
     /\ DecidedFactor # 0
     /\ ~Exists(FnameAt(DecidedFactor, "images", Frames[i].file_path)))
    => /\ pc' = "frames"
       /\ i' = i + 1
       /\ image_filenames' = image_filenames
       /\ mask_filenames' = mask_filenames
       /\ depth_filenames' = depth_filenames
       /\ poses' = poses
       /\ intr' = intr
       /\ distort' = distort
       /\ outs' = outs

C10_SkipMissingImage == [][C10_SkipStep]_vars

(* C11: with an indices file, a frame with an existing image that has no  *)
(* entry in the file, or whose entry is "ignore", is left out and the     *)
(* loop goes on to the next frame.                                        *)
C11_IgnoreStep ==
    (/\ pc = "frames"
     /\ i <= Len(Frames)
     /\ DecidedFactor # 0
     /\ Exists(FnameAt(DecidedFactor, "images", Frames[i].file_path))
     /\ HasIndicesJson
     /\ \/ Frames[i].file_path \notin DOMAIN indices_json
        \/ indices_json[Frames[i].file_path] = "ignore")
    => /\ pc' = "frames"
       /\ i' = i + 1
       /\ image_filenames' = image_filenames
       /\ poses' = poses
       /\ outs' = outs

C11_IgnoredFramesExcluded == [][C11_IgnoreStep]_vars

(* the names of the parsed images *)
ParsedNames == {image_filenames[j][3] : j \in 1..NumParsed}

(* C12: with a filename list for the requested split and no indices file, *)
(* a listed name that is not a parsed image ends the call in a            *)
(* RuntimeError without outputs; otherwise the selected indices are the   *)
(* positions of the parsed frames whose name is listed, in ascending      *)
(* order.                                                                 *)
C12_Step ==
    (pc = "split" /\ ~config.indices_file.set /\ split \in DOMAIN meta.lists) =>
        LET listed == meta.lists[split]
            pos == {j - 1 : j \in {l \in 1..NumParsed : image_filenames[l][3] \in listed}}
        IN IF \E x \in listed : x \notin ParsedNames
           THEN /\ pc' = "idle"
                /\ outs'[split].status = "RuntimeError: filenames not found"
           ELSE IF pos = {}
           THEN /\ pc' = "idle"
                /\ outs'[split].status = "AssertionError: Indices array is empty"
           ELSE /\ pc' = "finish"
                /\ Range(indices') = pos
                /\ Len(indices') = Cardinality(pos)
                /\ \A j \in 1..(Len(indices') - 1) : indices'[j] < indices'[j + 1]

C12_FilenameList == [][C12_Step]_vars

C12_Witness ==
    /\ pc = "finish"
    /\ ~config.indices_file.set
    /\ split = "val"
    /\ "val" \in DOMAIN meta.lists
    /\ NumParsed = 3
    /\ indices = <<0, 2>>

(* the manifest has a list for some split but none for the requested one *)
ListMissing ==
    /\ pc = "split"
    /\ has_split_files_spec
    /\ split \notin DOMAIN meta.lists

(* C13 as stated: when the manifest has a filename list for one of        *)
(* train/val/test but none for the requested split, the call raises the   *)
(* RuntimeError about the missing list.                                   *)
C13_OnlyRuntimeErrorStep ==
    ListMissing =>
        /\ pc' = "idle"
        /\ outs'[split].status = "RuntimeError: list of filenames is missing"

C13_OnlyRuntimeError == [][C13_OnlyRuntimeErrorStep]_vars

(* C13 amended: in that case the call never returns outputs and never     *)
(* uses the fraction: it raises the RuntimeError about the missing list,  *)
(* or, when an indices file assigns to the requested split an image that  *)
(* is not among the parsed file names, the ValueError of the index lookup *)
(* that runs first.                                                       *)
C13_Step ==
    ListMissing =>
        LET lookupFails ==
                /\ HasIndicesJson
                /\ \E n \in DOMAIN indices_json :
                      /\ indices_json[n] \in
                            (IF split = "all" THEN {"train", "val", "test"} ELSE {split})
                      /\ <<"images", 1, n>> \notin Range(image_filenames)
        IN /\ pc' = "idle"
           /\ outs'[split].status =
                 IF lookupFails THEN "ValueError"
                 ELSE "RuntimeError: list of filenames is missing"

C13_MissingList == [][C13_Step]_vars

C13_Witness ==
    /\ pc = "idle"
    /\ outs["val"].status = "RuntimeError: list of filenames is missing"
    /\ outs["train"].status = "ok"
    /\ DOMAIN meta.lists = {"train"}

(* C14: when the metrics of a split raise SceneDiverged, the file of that *)
(* split is written with scene_diverged true and without metrics, and     *)
(* main goes on: to the next split after "val", to its normal return      *)
(* after "test".                                                          *)
C14_Step ==
    (spc = "cleanup" /\ run.scene_diverged) =>
        /\ run.files[EvalSplits[run.split_ix]].scene_diverged
        /\ ~run.files[EvalSplits[run.split_ix]].metrics
        /\ spc' = IF run.split_ix < Len(EvalSplits) THEN "setup" ELSE "done"

C14_GoesOnAfterDivergence == [][C14_Step]_vars

InLoop == spc \in {"loop_head", "loop_update"}

(* C15: the render loop is never left; update_scene is called only after  *)
(* isTraining = False was written in the same iteration, and with step 1; *)
(* when it raises RuntimeError the error message is written to            *)
(* renderingState/log_errors and the next iteration starts.               *)
C15_State == spc = "loop_update" => run.isTraining = "False"

C15_Step ==
    /\ InLoop => InLoop'
    /\ spc = "loop_update" =>
          /\ run'.update_step = 1
          /\ spc' = "loop_head"
          /\ run'.update_scene = "RuntimeError" => run'.log_errors = GPU_OOM
          /\ run'.update_scene = "returned" => run'.log_errors = run.log_errors

C15_RenderLoop == []C15_State /\ [][C15_Step]_vars

C15_Witness ==
    /\ spc = "loop_update"
    /\ run.isTraining = "False"
    /\ run.update_scene = "RuntimeError"
    /\ run.log_errors = GPU_OOM
    /\ run.update_step = 1

(* C16: once eval_setup has returned, RunViewer.main reaches init_scene   *)
(* with the dataset of dataset_type ("all" when an indices file is        *)
(* given), start_train False, and the num_rays_per_chunk of the loaded    *)
(* config.                                                                *)
C16_Step ==
    (spc = "main"
     /\ eval_setup("test", args.load_ckpt, args.indices_file).status = "ok") =>
        /\ spc' = "loop_head"
        /\ run'.scene =
              [status |-> "ok",
               dataset |-> dataset_map[IF args.indices_file.set THEN SPLIT_MODE_ALL
                                       ELSE args.dataset_type],
               start_train |-> FALSE]
        /\ run'.config.num_rays_per_chunk = args.yaml.num_rays_per_chunk

C16_MainReachesInitScene == [][C16_Step]_vars

(* C17: eval_load_checkpoint returns the configured path, and loads the   *)
(* pipeline with the checkpoint's "step" when it is present and non-zero, *)
(* otherwise with the number in the file name step-<digits>.ckpt.         *)
C17_Step ==
    (spc = "setup" /\ args.yaml.train_size_initial # 0) =>
        LET st == args.loaded_state
            loaded(n) == /\ spc' = "prepare"
                         /\ run'.pipeline.step = n
                         /\ run'.checkpoint_path = args.load_ckpt
        IN IF "step" \in DOMAIN st /\ st["step"] # 0
           THEN loaded(st["step"])
           ELSE \A n \in 0..MaxStep, p \in 0..MaxPad :
                   args.load_ckpt.name = FormatCkptName(n, p) => loaded(n)

C17_LoadedStep == [][C17_Step]_vars

====
